---- MODULE Spec2Model ----
(***************************************************************************)
(* Airline complaint intake: the ticket store (src/src/database.py), the   *)
(* TrustCall processor with its fast-path gate                             *)
(* (src/src/trustcall_processor.py), the LangGraph intake state machine    *)
(* (src/src/graph_processor.py) and the conversation memory of the HTTP    *)
(* layer (src/api_enhanced.py).                                           *)
(*                                                                         *)
(* Text is a sequence of one-character strings (messages) or of tokens     *)
(* (responses).  Python None / SQL NULL is the value None.  An Optional    *)
(* object (a ticket row, a PassengerInfo, a list) is a set with at most    *)
(* one element: {} is None.  A dict is a function on its keys.             *)
(***************************************************************************)
EXTENDS Integers, Sequences, FiniteSets, TLC

\* ------------------------------------------------------------------ bounds
MaxCalls == 2
MaxGraphCalls == 4
MaxTCCalls == 2
MaxLongCalls == 12
MaxApiCalls == 4
MaxRaceCalls == 3
MaxRunCalls == 3
MaxTeamCalls == 2

\* ------------------------------------------------------- program constants
HistoryCap == 20
ThresholdTurns == 10

VARIABLES
  tickets,             \* the rows of table tickets
  clock,               \* CURRENT_TIMESTAMP of the database
  conversation_store,  \* api_enhanced.conversation_store: thread_id -> turns
  checkpoint,          \* the graph's MemorySaver: thread_id -> channel values
  call,                \* worker -> the process_message call it runs
  ncalls,              \* requests started so far
  appended,            \* history: every turn process_complaint appended, per thread
  ready,               \* history: per thread, the runs that reached Decide with nothing
                       \* missing and complete information, how many of them failed,
                       \* and what the first run of the thread was given and returned
  mg                   \* operands and results of merge_passenger_info

vars == <<tickets, clock, conversation_store, checkpoint, call, ncalls, appended, ready, mg>>

\* ------------------------------------------------------------------ values
None == "None"

Truthy(v) == v # None /\ v # ""

Only(s) == CHOOSE x \in s : TRUE

Range(s) == {s[i] : i \in 1..Len(s)}

Workers == {"w1", "w2"}
Threads == {"t1", "t2"}
TicketIds == {"TCK-A", "TCK-B"}

Priorities == {"LOW", "MEDIUM", "HIGH", "CRITICAL"}
Categories == {"DELAY", "CANCELLATION", "BAGGAGE", "SERVICE", "REFUND", "OTHER"}

\* ------------------------------------------------------------ PassengerInfo
InfoFields == {"name", "email", "phone", "flight_number", "booking_reference"}

PassengerInfo(n, e, p, f, b) ==
  [name |-> n, email |-> e, phone |-> p, flight_number |-> f, booking_reference |-> b]

AllNullInfo == PassengerInfo(None, None, None, None, None)

merge_wrong_keeps_existing(existing, new) ==
  IF existing = {} THEN new
  ELSE IF new = {} THEN existing
  ELSE {[k \in InfoFields |->
          IF Only(existing)[k] # None THEN Only(existing)[k] ELSE Only(new)[k]]}

merge_forgets_existing(existing, new) ==
  IF existing = {} \/ new = {} THEN new
  ELSE {[k \in InfoFields |->
          IF Only(new)[k] # None THEN Only(new)[k] ELSE Only(existing)[k]]}

merge_passenger_info(existing, new) ==
  IF existing = {} THEN new
  ELSE IF new = {} THEN existing
  ELSE {[k \in InfoFields |->
          IF Only(new)[k] # None THEN Only(new)[k] ELSE Only(existing)[k]]}

\* ------------------------------------------------------------- ticket store
Columns ==
  {"ticket_id", "thread_id", "passenger_name", "passenger_email", "passenger_phone",
   "flight_number", "booking_reference", "original_complaint", "category", "priority",
   "assigned_team", "status", "created_at", "updated_at"}

IdentityFields == {"ticket_id", "thread_id", "created_at"}

ConflictsPrimaryKeyOnly(tk, data) ==
  \E r \in tk : r.ticket_id = data.ticket_id

\* The UNIQUE(thread_id) and PRIMARY KEY(ticket_id) constraints of init_tables.
Conflicts(tk, data) ==
  \E r \in tk : r.ticket_id = data.ticket_id \/ r.thread_id = data.thread_id

NewRow(data, now) ==
  [c \in Columns |->
     IF c \in DOMAIN data THEN data[c]
     ELSE IF c \in {"created_at", "updated_at"} THEN now
     ELSE None]

\* The tickets the store holds for a conversation.
TicketsOf(tk, thread_id) == {r \in tk : r.thread_id = thread_id}

\* Why an INSERT ends as it does (history only).
CreateOutcome(tk, data, up) ==
  IF ~up THEN "backend_failure"
  ELSE IF TicketsOf(tk, data.thread_id) # {} THEN "thread_id_taken"
  ELSE IF \E r \in tk : r.ticket_id = data.ticket_id THEN "ticket_id_taken"
  ELSE "created"

\* up = FALSE: the backend raises (connection lost, ...) and the except branch runs.
create_ticket(tk, data, now, up) ==
  IF ~up \/ Conflicts(tk, data)
  THEN [ok |-> FALSE, tickets |-> tk]
  ELSE [ok |-> TRUE, tickets |-> tk \cup {NewRow(data, now)}]

\* str.lower() on the field names the oracle's answers carry.
LowerKey(field) ==
  CASE field = "Flight" -> "flight"
    [] field = "Thread_ID" -> "thread_id"
    [] OTHER -> field

\* The column an unquoted identifier of the UPDATE statement names: PostgreSQL
\* folds unquoted identifiers to lower case.
SqlColumn(field) == LowerKey(field)

UpdatedRow(r, fields, updates, now) ==
  [c \in Columns |->
     IF \E f \in fields : SqlColumn(f) = c
     THEN updates[CHOOSE f \in fields : SqlColumn(f) = c]
     ELSE IF c = "updated_at" THEN now
     ELSE r[c]]

\* The filter of update_ticket compares the field names as given.
UpdatableFieldsFolded(updates) ==
  {f \in DOMAIN updates : SqlColumn(f) \notin IdentityFields}

UpdatableFields(updates) == DOMAIN updates \ IdentityFields

update_ticket(tk, ticket_id, updates, now, up) ==
  LET fields == UpdatableFields(updates)
      cols == {SqlColumn(f) : f \in fields}
      rows == {r \in tk : r.ticket_id = ticket_id}
      rest == tk \ rows
      new == {UpdatedRow(r, fields, updates, now) : r \in rows} IN
  IF ~up THEN [ok |-> FALSE, tickets |-> tk]
  ELSE IF fields = {} THEN [ok |-> TRUE, tickets |-> tk]
  ELSE IF \/ ~(cols \subseteq Columns)
          \/ "updated_at" \in cols
          \/ Cardinality(cols) # Cardinality(fields)
       THEN [ok |-> FALSE, tickets |-> tk]     \* the UPDATE statement is rejected
  ELSE IF \E r \in new : Conflicts(rest, r)
       THEN [ok |-> FALSE, tickets |-> tk]     \* PRIMARY KEY or UNIQUE is violated
  ELSE [ok |-> TRUE, tickets |-> rest \cup new]

get_ticket_by_thread(tk, thread_id, up) ==
  IF ~up THEN {} ELSE {r \in tk : r.thread_id = thread_id}

clear_all_tickets(tk, up) ==
  IF ~up THEN [count |-> 0, tickets |-> tk]
  ELSE [count |-> Cardinality(tk), tickets |-> {}]

\* --------------------------------------------------------------------- text
LowerChar(ch) ==
  CASE ch = "O" -> "o" [] ch = "K" -> "k" [] ch = "L" -> "l"
    [] ch = "S" -> "s" [] ch = "T" -> "t" [] ch = "A" -> "a"
    [] ch = "E" -> "e" [] OTHER -> ch

lower(s) == [i \in 1..Len(s) |-> LowerChar(s[i])]

IsSpace(ch) == ch = " "

RECURSIVE lstrip(_)
lstrip(s) == IF s # <<>> /\ IsSpace(Head(s)) THEN lstrip(Tail(s)) ELSE s

RECURSIVE rstrip(_)
rstrip(s) ==
  IF s # <<>> /\ IsSpace(s[Len(s)]) THEN rstrip(SubSeq(s, 1, Len(s) - 1)) ELSE s

strip(s) == rstrip(lstrip(s))

normalize(message) == strip(lower(message))

normalize_no_lower(message) == strip(message)

trivial_messages ==
  { <<"o","k">>, <<"o","k","a","y">>, <<"t","h","a","n","k","s">>,
    <<"t","h","a","n","k"," ","y","o","u">>, <<"y","e","s">>, <<"n","o">>,
    <<"s","u","r","e">>, <<"g","o","t"," ","i","t">>,
    <<"u","n","d","e","r","s","t","o","o","d">>, <<"a","l","r","i","g","h","t">>,
    <<"f","i","n","e">>, <<"g","o","o","d">>, <<"g","r","e","a","t">> }


\* ------------------------------------------------------------------- turns
Turn(role, content) == [role |-> role, content |-> content]

UserTurns(h) == {i \in 1..Len(h) : h[i].role = "user"}

\* len([m for m in history if m.get('role') == 'user'])
message_count(h) == Cardinality(UserTurns(h))

LastUserIndex(h) == CHOOSE i \in UserTurns(h) : \A j \in UserTurns(h) : j <= i

\* The repetitive-message test of process_message: the last user turn of the
\* history, lower-cased and stripped, is truthy and equals the normalized message.
is_duplicate(message, h) ==
  /\ Len(h) > 0
  /\ UserTurns(h) # {}
  /\ LET last_user_msg == normalize(h[LastUserIndex(h)].content) IN
       /\ last_user_msg # <<>>
       /\ last_user_msg = normalize(message)

is_duplicate_first_turn(message, h) ==
  /\ Len(h) > 0
  /\ UserTurns(h) # {}
  /\ LET first_user_msg == normalize(h[CHOOSE i \in UserTurns(h) : \A j \in UserTurns(h) : i <= j].content) IN
       /\ first_user_msg # <<>>
       /\ first_user_msg = normalize(message)

is_trivial_exact_case(message) == strip(message) \in trivial_messages

is_trivial(message) == normalize(message) \in trivial_messages

\* history[-n:]
LastN(h, n) == IF Len(h) <= n THEN h ELSE SubSeq(h, Len(h) - n + 1, Len(h))

FirstN(h, n) == IF Len(h) <= n THEN h ELSE SubSeq(h, 1, n)

\* ----------------------------------------------------------------- results
Result(response, status, ticket_id, missing_fields) ==
  [response |-> response, status |-> status, ticket_id |-> ticket_id,
   missing_fields |-> missing_fields]

NoResult == Result(<<>>, None, None, {})

team_map_default == [p \in Priorities |-> "Customer Service"]

team_map ==
  [p \in Priorities |->
     CASE p = "CRITICAL" -> "Emergency Response"
       [] p = "HIGH" -> "Priority Support"
       [] p = "MEDIUM" -> "Customer Service"
       [] p = "LOW" -> "General Support"]

ApologyAcknowledged ==
  Result(<<"I apologize, but I'm having trouble processing your request.",
           "Please try again or contact support directly.">>, "acknowledged", None, {})

Apology ==
  Result(<<"I apologize, but I'm having trouble processing your request.",
           "Please try again or contact support directly.">>, "error", None, {})

TrivialResult(existing) ==
  IF existing # {}
  THEN Result(<<"Thank you. Your ticket", Only(existing).ticket_id, "is being processed.">>,
              "acknowledged", Only(existing).ticket_id, {})
  ELSE Result(<<"How can I help you with your flight complaint today?">>,
              "awaiting_complaint", None, {})

DuplicateResult ==
  Result(<<"I've already received this message.">>, "duplicate_message", None, {})

ThresholdResult(existing) ==
  Result(<<"Your ticket", Only(existing).ticket_id, "is already being processed.",
           "please call our support line directly.">>,
         "ticket_exists", Only(existing).ticket_id, {})

\* ------------------------------------------------------------------- calls
BlankState ==
  [thread_id |-> None, passenger_info |-> {}, original_complaint |-> None,
   category |-> None, priority |-> None, ticket_id |-> None, assigned_team |-> None,
   info_complete |-> FALSE, missing_fields |-> {}, ticket_exists |-> FALSE,
   next_action |-> None, action_type |-> None, action_result |-> None,
   response |-> {}, is_complaint |-> {}]

NoExtraction == [passenger_info |-> AllNullInfo, complaint_description |-> None,
                 is_complete |-> FALSE, made |-> FALSE]

IdleCall ==
  [kind |-> "none", pc |-> "idle", message |-> <<>>, thread_id |-> None,
   history |-> <<>>, existing |-> {}, stored |-> {}, result |-> NoResult,
   st |-> BlankState, extracted |-> NoExtraction, stages |-> <<>>,
   nOracle |-> 0, nLookup |-> 0, nCreate |-> 0, nUpdate |-> 0,
   db_ok |-> {}, new_id |-> None, create_outcome |-> None, cleared |-> FALSE,
   ready_seen |-> 0, ready_failed |-> 0, overlapped |-> {},
   committed |-> FALSE, oracle_failed |-> FALSE, answers |-> <<>>, fresh |-> FALSE]

Ended(c) == c.pc \in {"idle", "done", "raised"}

\* Workers are only names of concurrent executions: a new call takes the first
\* worker that runs none.
Free(w) == Ended(call[w]) /\ (w = "w2" => ~Ended(call["w1"]))

\* The call c begins on worker w (history: which calls run while which).
Begin(w, c) ==
  [v \in Workers |->
     IF v = w THEN [c EXCEPT !.overlapped = {u \in Workers \ {w} : ~Ended(call[u])}]
     ELSE IF ~Ended(call[v]) THEN [call[v] EXCEPT !.overlapped = @ \cup {w}]
     ELSE call[v]]

\* process_complaint is an async handler that never awaits: the event loop runs
\* one such handler at a time.
ApiBusy == \E v \in Workers : call[v].kind = "api" /\ ~Ended(call[v])

\* What process_complaint does once process_message has returned: append the
\* user turn and the assistant turn, keep the last 20.
StoreHistoryKeepFirst(c, result) ==
  FirstN(c.history \o <<Turn("user", c.message), Turn("assistant", result.response)>>,
         HistoryCap)

StoreHistoryUserTurnOnly(c, result) ==
  LastN(c.history \o <<Turn("user", c.message)>>, HistoryCap)

StoreHistory(c, result) ==
  LastN(c.history \o <<Turn("user", c.message), Turn("assistant", result.response)>>,
        HistoryCap)

SetHistoryOfAll(store, thread_id, h) == [t \in DOMAIN store |-> h]

\* conversation_store[thread_id] = ...
SetHistory(store, thread_id, h) == [store EXCEPT ![thread_id] = h]

\* The call of worker w returns result; c is its record at that point.
Return(w, c, result) ==
  /\ call' = [call EXCEPT ![w] = [c EXCEPT !.pc = "done", !.result = result]]
  /\ IF c.kind = "api"
     THEN /\ conversation_store' =
               SetHistory(conversation_store, c.thread_id, StoreHistory(c, result))
          /\ appended' = [appended EXCEPT ![c.thread_id] =
               @ \o <<Turn("user", c.message), Turn("assistant", result.response)>>]
     ELSE UNCHANGED <<conversation_store, appended>>

\* A call begins: through POST /api/v2/complaint (kind "api", the history is the
\* stored one) or directly on the processor (kind "tc", the caller's history).
StartTC(w, kind, thread_id, message, h, limit) ==
  /\ Free(w)
  /\ ncalls < limit
  /\ kind \in {"api", "tc"}
  /\ kind = "api" => ~ApiBusy /\ h = conversation_store[thread_id]
  /\ call' = Begin(w, [IdleCall EXCEPT !.kind = kind, !.pc = "gate", !.message = message,
                                       !.thread_id = thread_id, !.history = h])
  /\ ncalls' = ncalls + 1
  /\ UNCHANGED <<tickets, clock, conversation_store, checkpoint, appended, ready, mg>>

over_threshold_at_least(existing, h) ==
  /\ existing # {}
  /\ Only(existing).status = "OPEN"
  /\ message_count(h) >= ThresholdTurns

over_threshold(existing, h) ==
  /\ existing # {}
  /\ Only(existing).status = "OPEN"
  /\ message_count(h) > ThresholdTurns

\* TrustCallProcessor.process_message up to the oracle call: the fast-path gate.
TCGate(w, ups) ==
  LET c == call[w] IN
  /\ c.kind \in {"api", "tc"}
  /\ c.pc = "gate"
  /\ UNCHANGED <<tickets, clock, checkpoint, ncalls, ready, mg>>
  /\ IF is_trivial(c.message)
     THEN \E up \in ups :
            LET existing == get_ticket_by_thread(tickets, c.thread_id, up) IN
            Return(w, [c EXCEPT !.nLookup = @ + 1, !.existing = existing,
                                !.stored = TicketsOf(tickets, c.thread_id)],
                   TrivialResult(existing))
     ELSE IF is_duplicate(c.message, c.history)
     THEN Return(w, c, DuplicateResult)
     ELSE \E up \in ups :
            LET existing == get_ticket_by_thread(tickets, c.thread_id, up)
                c1 == [c EXCEPT !.nLookup = @ + 1, !.existing = existing,
                                !.stored = TicketsOf(tickets, c.thread_id)] IN
            IF over_threshold(existing, c.history)
            THEN Return(w, c1, ThresholdResult(existing))
            ELSE /\ call' = [call EXCEPT ![w] = [c1 EXCEPT !.pc = "oracle"]]
                 /\ UNCHANGED <<conversation_store, appended>>


\* ------------------------------------------------- the TrustCall oracle
\* Answers of llm.with_structured_output(ConversationAnalysis): the action of the
\* analysis, or "fail" when the call raises.
piFull == PassengerInfo("Ann", "ann@x", None, "AA1", None)
piName == PassengerInfo("Ann", None, None, None, None)
piPhone == PassengerInfo(None, None, "555", None, None)
piBlank == PassengerInfo("", None, None, "AA1", None)

CreateAction(info, complaint, priority, category) ==
  [action |-> "create_ticket", passenger_info |-> info, complaint |-> complaint,
   priority |-> priority, category |-> category]

UpdateAction(ticket_id, phone, email, flight, complaint_update, corrections) ==
  [action |-> "update_ticket", ticket_id |-> ticket_id, passenger_phone |-> phone,
   passenger_email |-> email, flight_number |-> flight,
   complaint_update |-> complaint_update, corrections |-> corrections]

RequestInfoAction(missing_fields) ==
  [action |-> "request_info", missing_fields |-> missing_fields]

AcknowledgeAction(message) == [action |-> "acknowledge", message |-> message]

NoCorrections == <<>>

CreateActions ==
  { CreateAction(piFull, "lost bag", "CRITICAL", "BAGGAGE"),
    CreateAction(piFull, "late", "LOW", "DELAY"),
    CreateAction(piPhone, "late", "HIGH", "OTHER"),
    CreateAction(piName, "", "MEDIUM", "REFUND") }

UpdateActions ==
  { UpdateAction(id, u[1], u[2], u[3], u[4], u[5]) :
      id \in TicketIds,
      u \in { <<"777", None, None, "more", NoCorrections>>,
              <<None, "", None, None, [Flight |-> "BB2", thread_id |-> "t2"]>>,
              <<None, None, None, None, [Thread_ID |-> "t2"]>>,
              <<None, None, None, None, [email |-> ""]>>,
              <<None, None, None, None, [seat |-> "12A"]>>,
              <<None, None, None, None, [status |-> "CLOSED"]>>,
              <<None, None, None, None, NoCorrections>> } }

RequestInfoActions ==
  { RequestInfoAction(<<"name">>), RequestInfoAction(<<"name", "email">>),
    RequestInfoAction(<<"name", "email", "complaint">>), RequestInfoAction(<<>>) }

AcknowledgeActions == { AcknowledgeAction(<<"Noted.">>) }

OracleFails == [action |-> "fail"]

TCAnswers ==
  {OracleFails} \cup CreateActions \cup UpdateActions \cup RequestInfoActions
           \cup AcknowledgeActions

\* ------------------------------------------------ TrustCallProcessor actions
TicketData(ticket_id, thread_id, info, complaint, category, priority, team) ==
  [ticket_id |-> ticket_id, thread_id |-> thread_id,
   passenger_name |-> info.name, passenger_email |-> info.email,
   passenger_phone |-> info.phone, flight_number |-> info.flight_number,
   booking_reference |-> info.booking_reference,
   original_complaint |-> complaint, category |-> category, priority |-> priority,
   assigned_team |-> team, status |-> "OPEN"]

CreatedResultIgnoringFailure(a, ticket_id, success) ==
  Result(<<"Dear", a.passenger_info.name, "Your complaint has been registered.",
           ticket_id, a.priority, a.category, team_map[a.priority]>>,
         "ticket_created", ticket_id, {})

CreatedResult(a, ticket_id, success) ==
  IF success
  THEN Result(<<"Dear", a.passenger_info.name, "Your complaint has been registered.",
                ticket_id, a.priority, a.category, team_map[a.priority]>>,
              "ticket_created", ticket_id, {})
  ELSE Result(<<"We encountered an error creating your ticket. Please try again.">>,
              "error", None, {})

\* TrustCallProcessor._create_ticket
TCCreate(w, c, a, ticket_id, up) ==
  LET data == TicketData(ticket_id, c.thread_id, a.passenger_info, a.complaint,
                         a.category, a.priority, team_map[a.priority])
      r == create_ticket(tickets, data, clock, up)
  IN /\ tickets' = r.tickets
     /\ clock' = IF r.ok THEN clock + 1 ELSE clock
     /\ Return(w, [c EXCEPT !.nCreate = @ + 1, !.db_ok = {r.ok}, !.new_id = ticket_id,
                             !.create_outcome = CreateOutcome(tickets, data, up),
                             !.committed = r.tickets # tickets],
               CreatedResult(a, ticket_id, r.ok))

Put(d, k, v) == [x \in DOMAIN d \cup {k} |-> IF x = k THEN v ELSE d[x]]

DirectUpdates(a) ==
  LET u1 == IF Truthy(a.passenger_phone)
            THEN Put(<<>>, "passenger_phone", a.passenger_phone) ELSE <<>>
      u2 == IF Truthy(a.passenger_email)
            THEN Put(u1, "passenger_email", a.passenger_email) ELSE u1
      u3 == IF Truthy(a.flight_number)
            THEN Put(u2, "flight_number", a.flight_number) ELSE u2
  IN IF Truthy(a.complaint_update)
     THEN Put(u3, "original_complaint", a.complaint_update) ELSE u3

field_map(field) ==
  CASE LowerKey(field) = "flight" -> "flight_number"
    [] LowerKey(field) = "email" -> "passenger_email"
    [] LowerKey(field) = "phone" -> "passenger_phone"
    [] OTHER -> field

\* updates[db_field] = value for every correction (the corrections of the
\* oracle's answers map to distinct columns, so the order does not matter).
WithCorrections(updates, corrections) ==
  LET mapped == {field_map(k) : k \in DOMAIN corrections} IN
  [f \in DOMAIN updates \cup mapped |->
     IF f \in mapped
     THEN corrections[CHOOSE k \in DOMAIN corrections : field_map(k) = f]
     ELSE updates[f]]

UpdateSet(a) == WithCorrections(DirectUpdates(a), a.corrections)

UpdatedResult(a, existing, updates) ==
  IF updates # <<>>
  THEN Result(<<"Dear", Only(existing).passenger_name, "Your ticket", a.ticket_id,
                "has been updated with the new information.">>,
              "ticket_updated", a.ticket_id, {})
  ELSE Result(<<"Dear", Only(existing).passenger_name, "Thank you for your message regarding ticket",
                a.ticket_id, "Your ticket is being processed by our",
                Only(existing).assigned_team, "team.">>,
              "acknowledged", a.ticket_id, {})

\* TrustCallProcessor._update_ticket.  With no existing ticket the response's
\* existing_ticket['passenger_name'] raises after the update was issued, and the
\* except branch of process_message answers with the apology.
TCUpdate(w, c, a, up) ==
  LET updates == UpdateSet(a)
      r == IF updates # <<>>
           THEN update_ticket(tickets, a.ticket_id, updates, clock, up)
           ELSE [ok |-> TRUE, tickets |-> tickets]
      c1 == IF updates # <<>>
            THEN [c EXCEPT !.nUpdate = @ + 1, !.db_ok = {r.ok},
                           !.committed = r.tickets # tickets]
            ELSE c
  IN /\ tickets' = r.tickets
     /\ clock' = IF r.tickets # tickets THEN clock + 1 ELSE clock
     /\ Return(w, c1, IF c.existing = {} THEN Apology
                      ELSE UpdatedResult(a, c.existing, updates))

\* TrustCallProcessor._request_info: missing[-1] raises on an empty list.
RequestInfoResult(a) ==
  LET missing == a.missing_fields IN
  IF Len(missing) = 0 THEN Apology
  ELSE Result(<<"To process your complaint, I'll need">> \o missing
                \o <<"Could you please provide these details?">>,
              "awaiting_information", None, {missing})

AcknowledgeResult(a, existing) ==
  Result(a.message, "acknowledged",
         IF existing # {} THEN Only(existing).ticket_id ELSE None, {})

\* The oracle call of process_message and the action it dispatches to.
TCOracle(w, answers, ids, ups) ==
  LET c0 == call[w]
      c == [c0 EXCEPT !.nOracle = @ + 1] IN
  /\ c0.kind \in {"api", "tc"}
  /\ c0.pc = "oracle"
  /\ UNCHANGED <<checkpoint, ncalls, ready, mg>>
  /\ \E a \in answers :
       IF a.action = "fail"
       THEN /\ Return(w, [c EXCEPT !.oracle_failed = TRUE], Apology)
            /\ UNCHANGED <<tickets, clock>>
       ELSE IF a.action = "create_ticket"
       THEN \E id \in ids, up \in ups : TCCreate(w, c, a, id, up)
       ELSE IF a.action = "update_ticket"
       THEN \E up \in ups : TCUpdate(w, c, a, up)
       ELSE IF a.action = "request_info"
       THEN /\ Return(w, c, RequestInfoResult(a))
            /\ UNCHANGED <<tickets, clock>>
       ELSE /\ Return(w, c, AcknowledgeResult(a, c.existing))
            /\ UNCHANGED <<tickets, clock>>

NoneReady == [seen |-> 0, failed |-> 0, asked |-> FALSE, first |-> {}]

\* What DELETE /api/v2/tickets/clear answers once db.clear_all_tickets returned.
ClearResponse(count) ==
  [status |-> "success", count |-> count, conversations_cleared |-> TRUE]

\* DELETE /api/v2/tickets/clear
Clear(limit, ups) ==
  /\ ~ApiBusy
  /\ ncalls < limit
  /\ ncalls' = ncalls + 1
  /\ \E up \in ups :
       tickets' = clear_all_tickets(tickets, up).tickets
  /\ conversation_store' = [t \in Threads |-> <<>>]
  /\ appended' = [t \in Threads |-> <<>>]
  /\ call' = [w \in Workers |-> [call[w] EXCEPT !.cleared = TRUE]]
  /\ UNCHANGED <<clock, checkpoint, ready, mg>>


\* --------------------------------------------------- the graph's oracle
ClassifyAnswers ==
  {OracleFails} \cup {[action |-> "classified", is_complaint |-> b] : b \in BOOLEAN}

Extraction(info, complaint_description, is_complete) ==
  [action |-> "extracted", passenger_info |-> info,
   complaint_description |-> complaint_description, is_complete |-> is_complete]

ExtractAnswers ==
  {OracleFails} \cup
  { Extraction(AllNullInfo, None, FALSE),
    Extraction(piName, "late", FALSE),
    Extraction(piPhone, None, TRUE),
    Extraction(piBlank, "", TRUE),
    Extraction(piFull, "lost bag", TRUE),
    Extraction(piFull, "lost bag", FALSE) }

AnalyzeAnswers ==
  {OracleFails} \cup
  { [action |-> "analyzed", category |-> "BAGGAGE", priority |-> "CRITICAL"],
    [action |-> "analyzed", category |-> "DELAY", priority |-> "HIGH"],
    [action |-> "analyzed", category |-> "OTHER", priority |-> "MEDIUM"],
    [action |-> "analyzed", category |-> "REFUND", priority |-> "LOW"] }

\* ------------------------------------------ ComplaintGraphProcessor actions
InfoOfTicket(r) ==
  PassengerInfo(r.passenger_name, r.passenger_email, r.passenger_phone,
                r.flight_number, r.booking_reference)

\* The channel values the run starts from: those the checkpointer saved for the
\* thread, with initial_state written over them (passenger_info through its
\* reducer).
InitialState(saved, thread_id, existing) ==
  LET s1 == [saved EXCEPT !.thread_id = thread_id,
                          !.ticket_exists = existing # {},
                          !.ticket_id = IF existing # {} THEN Only(existing).ticket_id
                                        ELSE None]
  IN IF existing # {}
     THEN [s1 EXCEPT !.passenger_info =
                       merge_passenger_info(@, {InfoOfTicket(Only(existing))}),
                     !.original_complaint = Only(existing).original_complaint]
     ELSE s1

\* A node of the graph wrote st: the call goes on at pc, the checkpointer saves.
Step(w, c, st, stage, pc) ==
  /\ call' = [call EXCEPT ![w] =
       [c EXCEPT !.st = st, !.pc = pc, !.stages = Append(@, stage)]]
  /\ checkpoint' = [checkpoint EXCEPT ![c.thread_id] = st]

\* A node raised: graph.invoke and process_message raise with it.
Raise(w, c) ==
  /\ call' = [call EXCEPT ![w] = [c EXCEPT !.pc = "raised", !.oracle_failed = TRUE]]
  /\ UNCHANGED checkpoint

\* The oracle answered a in the call c (history).
Heard(c, a) == [c EXCEPT !.answers = Append(@, a)]

\* process_message up to graph.invoke's first node.
StartGraph(w, thread_id, message, limit, ups) ==
  /\ Free(w)
  /\ ncalls < limit
  /\ ncalls' = ncalls + 1
  /\ \E up \in ups :
       LET existing == get_ticket_by_thread(tickets, thread_id, up)
           st == InitialState(checkpoint[thread_id], thread_id, existing)
           c == [IdleCall EXCEPT !.kind = "graph", !.pc = "classify", !.message = message,
                                 !.thread_id = thread_id, !.existing = existing,
                                 !.stored = TicketsOf(tickets, thread_id),
                                 !.nLookup = 1, !.st = st, !.stages = <<"start">>,
                                 !.fresh = checkpoint[thread_id] = BlankState]
       IN /\ call' = Begin(w, c)
          /\ checkpoint' = [checkpoint EXCEPT ![thread_id] = st]
  /\ UNCHANGED <<tickets, clock, conversation_store, appended, ready, mg>>

\* The conditional edge after classify.
AfterClassifyAlwaysExtract(is_complaint) == "extract"

AfterClassify(is_complaint) == IF is_complaint THEN "extract" ELSE "respond"

Classify(w, answers) ==
  LET c0 == call[w]
      c == [c0 EXCEPT !.nOracle = @ + 1] IN
  /\ c0.kind = "graph" /\ c0.pc = "classify"
  /\ UNCHANGED <<tickets, clock, conversation_store, appended, ncalls, ready, mg>>
  /\ \E a \in answers :
       IF a.action = "fail" THEN Raise(w, Heard(c, a))
       ELSE Step(w, Heard(c, a), [c.st EXCEPT !.is_complaint = {a.is_complaint}], "classify",
                 AfterClassify(a.is_complaint))

Extract(w, answers) ==
  LET c0 == call[w]
      c == [c0 EXCEPT !.nOracle = @ + 1] IN
  /\ c0.kind = "graph" /\ c0.pc = "extract"
  /\ UNCHANGED <<tickets, clock, conversation_store, appended, ncalls, ready, mg>>
  /\ \E a \in answers :
       IF a.action = "fail" THEN Raise(w, Heard(c, a))
       ELSE Step(w, [Heard(c, a) EXCEPT !.extracted =
                        [passenger_info |-> a.passenger_info,
                         complaint_description |-> a.complaint_description,
                         is_complete |-> a.is_complete, made |-> TRUE]],
                 [c.st EXCEPT
                    !.passenger_info = merge_passenger_info(@, {a.passenger_info}),
                    !.original_complaint = a.complaint_description,
                    !.info_complete = a.is_complete],
                 "extract", "decide")

MissingFieldsContactEither(st) ==
  (IF st.passenger_info # {}
   THEN (IF ~Truthy(Only(st.passenger_info).name) THEN <<"name">> ELSE <<>>)
        \o (IF ~Truthy(Only(st.passenger_info).email)
               \/ ~Truthy(Only(st.passenger_info).phone)
            THEN <<"contact information (email or phone)">> ELSE <<>>)
   ELSE <<"name", "contact information">>)
  \o (IF ~Truthy(st.original_complaint) THEN <<"complaint details">> ELSE <<>>)

MissingFields(st) ==
  (IF st.passenger_info # {}
   THEN (IF ~Truthy(Only(st.passenger_info).name) THEN <<"name">> ELSE <<>>)
        \o (IF ~Truthy(Only(st.passenger_info).email)
               /\ ~Truthy(Only(st.passenger_info).phone)
            THEN <<"contact information (email or phone)">> ELSE <<>>)
   ELSE <<"name", "contact information">>)
  \o (IF ~Truthy(st.original_complaint) THEN <<"complaint details">> ELSE <<>>)

NextActionEndsOnAcknowledge(st, missing) ==
  IF st.ticket_exists THEN [action_type |-> "execute", next_action |-> "execute"]
  ELSE IF missing # <<>> THEN [action_type |-> "request_info", next_action |-> "respond"]
  ELSE IF st.info_complete THEN [action_type |-> "analyze", next_action |-> "analyze"]
  ELSE [action_type |-> "acknowledge", next_action |-> "end"]

NextActionTrustsOracle(st, missing) ==
  IF st.ticket_exists THEN [action_type |-> "execute", next_action |-> "execute"]
  ELSE IF st.info_complete THEN [action_type |-> "analyze", next_action |-> "analyze"]
  ELSE IF missing # <<>> THEN [action_type |-> "request_info", next_action |-> "respond"]
  ELSE [action_type |-> "acknowledge", next_action |-> "respond"]

NextActionIgnoringMissing(st, missing) ==
  IF st.ticket_exists THEN [action_type |-> "execute", next_action |-> "execute"]
  ELSE IF st.info_complete THEN [action_type |-> "analyze", next_action |-> "analyze"]
  ELSE [action_type |-> "acknowledge", next_action |-> "respond"]

NextAction(st, missing) ==
  IF st.ticket_exists THEN [action_type |-> "execute", next_action |-> "execute"]
  ELSE IF missing # <<>> THEN [action_type |-> "request_info", next_action |-> "respond"]
  ELSE IF st.info_complete THEN [action_type |-> "analyze", next_action |-> "analyze"]
  ELSE [action_type |-> "acknowledge", next_action |-> "respond"]

\* What process_message returns from the final state of graph.invoke.
GraphResult(st) ==
  Result(IF st.response # {} THEN Only(st.response) ELSE <<"Thank you for contacting us.">>,
         IF st.action_result = None THEN "processed" ELSE st.action_result,
         st.ticket_id, st.missing_fields)

\* The conditional edge after decide_action: the node that runs next, "done" for
\* END.
AfterDecideEndsOnRespond(next_action) ==
  CASE next_action = "analyze" -> "analyze"
    [] next_action = "execute" -> "execute"
    [] OTHER -> "done"

AfterDecide(next_action) ==
  CASE next_action = "analyze" -> "analyze"
    [] next_action = "execute" -> "execute"
    [] next_action = "respond" -> "respond"
    [] OTHER -> "done"

\* _decide_action and the conditional edge after it.
Decide(w) ==
  LET c == call[w]
      missing == MissingFields(c.st)
      d == NextAction(c.st, missing)
      st2 == [c.st EXCEPT !.next_action = d.next_action,
                          !.missing_fields = {missing},
                          !.action_type = d.action_type]
      next == AfterDecide(d.next_action) IN
  /\ c.kind = "graph" /\ c.pc = "decide"
  /\ UNCHANGED <<tickets, clock, conversation_store, appended, ncalls, mg>>
  /\ ready' = IF d.next_action = "analyze"
              THEN [ready EXCEPT ![c.thread_id].seen = @ + 1]
              ELSE IF d.action_type = "request_info"
              THEN [ready EXCEPT ![c.thread_id].asked = TRUE]
              ELSE ready
  /\ Step(w, [c EXCEPT !.ready_seen = ready[c.thread_id].seen,
                       !.ready_failed = ready[c.thread_id].failed,
                       !.result = IF next = "done" THEN GraphResult(st2) ELSE @],
          st2, "decide_action", next)

Analyze(w, answers) ==
  LET c0 == call[w]
      c == [c0 EXCEPT !.nOracle = @ + 1] IN
  /\ c0.kind = "graph" /\ c0.pc = "analyze"
  /\ UNCHANGED <<tickets, clock, conversation_store, appended, ncalls, mg>>
  /\ \E a \in answers :
       IF a.action = "fail"
       THEN /\ Raise(w, Heard(c, a))
            /\ ready' = [ready EXCEPT ![c.thread_id].failed = @ + 1]
       ELSE /\ ready' = ready
            /\ Step(w, Heard(c, a), [c.st EXCEPT !.category = a.category, !.priority = a.priority,
                                    !.assigned_team = team_map[a.priority]],
                 "analyze", "execute")

ExecuteUpdates(st) ==
  LET u1 == IF st.passenger_info # {} /\ Truthy(Only(st.passenger_info).phone)
            THEN Put(<<>>, "passenger_phone", Only(st.passenger_info).phone) ELSE <<>>
      u2 == IF st.passenger_info # {} /\ Truthy(Only(st.passenger_info).email)
            THEN Put(u1, "passenger_email", Only(st.passenger_info).email) ELSE u1
  IN IF Truthy(st.original_complaint)
     THEN Put(u2, "original_complaint", st.original_complaint) ELSE u2

\* What the update path and the create path of _execute_action return.
UpdatedStateIgnoringFailure(st, success) ==
  [st EXCEPT !.action_result = "ticket_updated"]

UpdatedState(st, success) ==
  [st EXCEPT !.action_result = IF success THEN "ticket_updated" ELSE "update_failed"]

CreatedStateKeepsId(st, ticket_id, success) ==
  [st EXCEPT !.ticket_id = ticket_id,
             !.action_result = IF success THEN "ticket_created" ELSE "creation_failed"]

CreatedState(st, ticket_id, success) ==
  [st EXCEPT !.ticket_id = IF success THEN ticket_id ELSE None,
             !.action_result = IF success THEN "ticket_created" ELSE "creation_failed"]

StateInfo(st) == IF st.passenger_info # {} THEN Only(st.passenger_info) ELSE AllNullInfo

\* _execute_action
Execute(w, ids, ups) ==
  LET c == call[w]
      st == c.st IN
  /\ c.kind = "graph" /\ c.pc = "execute"
  /\ UNCHANGED <<conversation_store, appended, ncalls, mg>>
  /\ \E up \in ups :
       IF st.ticket_exists
       THEN LET r == update_ticket(tickets, st.ticket_id, ExecuteUpdates(st), clock, up) IN
            /\ tickets' = r.tickets
            /\ clock' = IF r.tickets # tickets THEN clock + 1 ELSE clock
            /\ ready' = ready
            /\ Step(w, [c EXCEPT !.nUpdate = @ + 1, !.db_ok = {r.ok},
                                 !.committed = r.tickets # tickets],
                    UpdatedState(st, r.ok), "execute_action", "respond")
       ELSE \E id \in ids :
            LET data == TicketData(id, st.thread_id, StateInfo(st), st.original_complaint,
                                   st.category, st.priority, st.assigned_team)
                r == create_ticket(tickets, data, clock, up) IN
            /\ tickets' = r.tickets
            /\ clock' = IF r.ok THEN clock + 1 ELSE clock
            /\ ready' = [ready EXCEPT ![c.thread_id] =
                           IF r.ok THEN [@ EXCEPT !.seen = 0, !.failed = 0]
                           ELSE [@ EXCEPT !.failed = @ + 1]]
            /\ Step(w, [c EXCEPT !.nCreate = @ + 1, !.db_ok = {r.ok}, !.new_id = id,
                                 !.create_outcome = CreateOutcome(tickets, data, up),
                                 !.committed = r.tickets # tickets],
                    CreatedState(st, id, r.ok), "execute_action", "respond")

ListOf(opt) == IF opt = {} THEN <<>> ELSE Only(opt)

ResponseTextTicketFirst(st) ==
  IF Truthy(st.ticket_id)
  THEN <<"Dear",
         IF st.passenger_info # {} THEN Only(st.passenger_info).name ELSE "Valued Customer",
         "Your complaint has been registered.", st.ticket_id,
         IF st.priority = None THEN "MEDIUM" ELSE st.priority,
         IF st.assigned_team = None THEN "Customer Service" ELSE st.assigned_team>>
  ELSE IF ListOf(st.missing_fields) # <<>>
  THEN <<"To process your complaint, I'll need">> \o ListOf(st.missing_fields)
         \o <<"Could you please provide these details?">>
  ELSE IF st.is_complaint # {TRUE}
  THEN <<"Thank you for contacting us. How may I assist you today?">>
  ELSE <<"Thank you for your message. Please provide more details about your concern.">>

\* _generate_response
ResponseText(st) ==
  IF ListOf(st.missing_fields) # <<>>
  THEN <<"To process your complaint, I'll need">> \o ListOf(st.missing_fields)
         \o <<"Could you please provide these details?">>
  ELSE IF Truthy(st.ticket_id)
  THEN <<"Dear",
         IF st.passenger_info # {} THEN Only(st.passenger_info).name ELSE "Valued Customer",
         "Your complaint has been registered.", st.ticket_id,
         IF st.priority = None THEN "MEDIUM" ELSE st.priority,
         IF st.assigned_team = None THEN "Customer Service" ELSE st.assigned_team>>
  ELSE IF st.is_complaint # {TRUE}
  THEN <<"Thank you for contacting us. How may I assist you today?">>
  ELSE <<"Thank you for your message. Please provide more details about your concern.">>

\* What a call of process_message is given (the message, the outcome of its store
\* operations, the oracle's answers) and what it returns (history: the first call
\* of a conversation is kept, to compare later calls with it).
Given(c) ==
  [message |-> c.message, existing |-> c.existing, stored |-> c.stored,
   answers |-> c.answers, db_ok |-> c.db_ok, new_id |-> c.new_id]

Returned(result) ==
  [status |-> result.status, ticket_id |-> result.ticket_id,
   missing_fields |-> result.missing_fields]

\* The respond node, the END edge and the return of process_message.
Respond(w) ==
  LET c == call[w]
      st == [c.st EXCEPT !.response = {ResponseText(c.st)}] IN
  /\ c.kind = "graph" /\ c.pc = "respond"
  /\ UNCHANGED <<tickets, clock, conversation_store, appended, ncalls, mg>>
  /\ ready' = IF c.fresh /\ ready[c.thread_id].first = {}
              THEN [ready EXCEPT ![c.thread_id].first =
                      {[given |-> Given(c), result |-> Returned(GraphResult(st))]}]
              ELSE ready
  /\ Step(w, [c EXCEPT !.result = GraphResult(st)], st, "respond", "done")

\* ------------------------------------------------------------ specification
\* The oracle's answers in the specification of concurrent calls.
FewTCAnswers ==
  { OracleFails,
    CreateAction(piFull, "lost bag", "CRITICAL", "BAGGAGE"),
    CreateAction(piName, "", "MEDIUM", "REFUND"),
    RequestInfoAction(<<"name">>),
    AcknowledgeAction(<<"Noted.">>) }
  \cup { UpdateAction(id, u[1], u[2], u[3], u[4], u[5]) :
           id \in TicketIds,
           u \in { <<"777", None, None, "more", NoCorrections>>,
                   <<None, "", None, None, [Flight |-> "BB2", Thread_ID |-> "t2"]>> } }

FewExtractAnswers ==
  { OracleFails,
    Extraction(AllNullInfo, None, FALSE),
    Extraction(piPhone, None, TRUE),
    Extraction(piFull, "lost bag", TRUE) }

FewAnalyzeAnswers ==
  { OracleFails,
    [action |-> "analyzed", category |-> "BAGGAGE", priority |-> "CRITICAL"] }

Blank == <<" ">>
Msgs ==
  { <<"O","K">>, <<"L","A","T","E">>, <<" ","l","a","t","e">>, <<"l","o","s","t">>, Blank }

SmallMsgs == { <<"O","K">>, <<"l","o","s","t">> }

GraphMsgs == { <<"l","o","s","t">> }

\* Histories a direct caller of TrustCallProcessor.process_message supplies.
NTurns(n, a, b) ==
  [i \in 1..(2 * n) |->
     IF i % 2 = 1 THEN Turn("user", IF i % 4 = 1 THEN a ELSE b)
     ELSE Turn("assistant", <<"Noted.">>)]

DirectHistories ==
  { <<>>,
    <<Turn("user", <<"L","a","t","e"," ">>), Turn("assistant", <<"Noted.">>)>>,
    <<Turn("user", Blank), Turn("assistant", <<"Noted.">>)>>,
    NTurns(ThresholdTurns, <<"l","o","s","t">>, <<"o","k">>),
    NTurns(ThresholdTurns + 1, <<"l","o","s","t">>, <<"o","k">>),
    NTurns(ThresholdTurns + 1, Blank, <<"o","k">>) }

DbUp == BOOLEAN

MergeIdle == [pc |-> "idle"]

Init ==
  /\ tickets = {}
  /\ clock = 0
  /\ conversation_store = [t \in Threads |-> <<>>]
  /\ checkpoint = [t \in Threads |-> BlankState]
  /\ call = [w \in Workers |-> IdleCall]
  /\ ncalls = 0
  /\ appended = [t \in Threads |-> <<>>]
  /\ ready = [t \in Threads |-> NoneReady]
  /\ mg = MergeIdle

Next ==
  \/ \E w \in Workers, t \in Threads, m \in SmallMsgs :
       StartTC(w, "tc", t, m, <<>>, MaxCalls)
  \/ \E w \in Workers : TCGate(w, DbUp)
  \/ \E w \in Workers : TCOracle(w, FewTCAnswers, TicketIds, DbUp)
  \/ \E w \in Workers, t \in Threads, m \in GraphMsgs :
       StartGraph(w, t, m, MaxCalls, DbUp)
  \/ \E w \in Workers : Classify(w, ClassifyAnswers)
  \/ \E w \in Workers : Extract(w, FewExtractAnswers)
  \/ \E w \in Workers : Decide(w)
  \/ \E w \in Workers : Analyze(w, FewAnalyzeAnswers)
  \/ \E w \in Workers : Execute(w, TicketIds, DbUp)
  \/ \E w \in Workers : Respond(w)
  \/ Clear(MaxCalls, DbUp)

Spec == Init /\ [][Next]_vars


\* The intake state machine alone, one call at a time.
NextGraph ==
  \/ \E m \in GraphMsgs : StartGraph("w1", "t1", m, MaxGraphCalls, DbUp)
  \/ Classify("w1", ClassifyAnswers)
  \/ Extract("w1", ExtractAnswers)
  \/ Decide("w1")
  \/ Analyze("w1", AnalyzeAnswers)
  \/ Execute("w1", TicketIds, DbUp)
  \/ Respond("w1")
  \/ Clear(MaxGraphCalls, DbUp)

SpecGraph == Init /\ [][NextGraph]_vars


\* TrustCallProcessor.process_message called directly, one call at a time.
NextTC ==
  \/ \E t \in Threads, m \in Msgs, h \in DirectHistories :
       StartTC("w1", "tc", t, m, h, MaxTCCalls)
  \/ TCGate("w1", DbUp)
  \/ TCOracle("w1", TCAnswers, TicketIds, DbUp)
  \/ Clear(MaxTCCalls, DbUp)

SpecTC == Init /\ [][NextTC]_vars

\* POST /api/v2/complaint on one conversation, many times over.
LongMsgs == { <<"l","o","s","t">>, <<"L","A","T","E">> }

LongAnswers == { CreateAction(piFull, "lost bag", "CRITICAL", "BAGGAGE") }

NextLong ==
  \/ \E m \in LongMsgs :
       StartTC("w1", "api", "t1", m, conversation_store["t1"], MaxLongCalls)
  \/ TCGate("w1", {TRUE})
  \/ TCOracle("w1", LongAnswers, {"TCK-A"}, {TRUE})

SpecLong == Init /\ [][NextLong]_vars

\* POST /api/v2/complaint and DELETE /api/v2/tickets/clear on two conversations,
\* with every kind of oracle answer and a backend that may fail.
NextApi ==
  \/ \E t \in Threads, m \in SmallMsgs :
       StartTC("w1", "api", t, m, conversation_store[t], MaxApiCalls)
  \/ TCGate("w1", DbUp)
  \/ TCOracle("w1", FewTCAnswers, TicketIds, DbUp)
  \/ Clear(MaxApiCalls, DbUp)

SpecApi == Init /\ [][NextApi]_vars

\* Calls of both processors that overlap on the conversation t1, the backend up:
\* the oracle asks for a ticket, or for a correction of a ticket's Thread_ID.
RaceAnswers ==
  { CreateAction(piFull, "lost bag", "CRITICAL", "BAGGAGE") }
  \cup { UpdateAction(id, None, None, None, None, [Thread_ID |-> "t2"]) : id \in TicketIds }

NextRace ==
  \/ \E w \in Workers : StartTC(w, "tc", "t1", <<"l","o","s","t">>, <<>>, MaxRaceCalls)
  \/ \E w \in Workers : TCGate(w, {TRUE})
  \/ \E w \in Workers : TCOracle(w, RaceAnswers, TicketIds, {TRUE})
  \/ \E w \in Workers : StartGraph(w, "t1", <<"l","o","s","t">>, MaxRaceCalls, {TRUE})
  \/ \E w \in Workers : Classify(w, {[action |-> "classified", is_complaint |-> TRUE]})
  \/ \E w \in Workers : Extract(w, {Extraction(piFull, "lost bag", TRUE)})
  \/ \E w \in Workers : Decide(w)
  \/ \E w \in Workers :
       Analyze(w, {[action |-> "analyzed", category |-> "BAGGAGE", priority |-> "CRITICAL"]})
  \/ \E w \in Workers : Execute(w, TicketIds, {TRUE})
  \/ \E w \in Workers : Respond(w)

SpecRace == Init /\ [][NextRace]_vars

\* Runs of the intake state machine on one conversation, one after the other.
\* graph.invoke runs the nodes of a run synchronously, one after the other, and
\* every oracle call returns or raises: a run that can take a step takes it.
RunStage ==
  \/ Classify("w1", ClassifyAnswers)
  \/ Extract("w1", FewExtractAnswers)
  \/ Decide("w1")
  \/ Analyze("w1", FewAnalyzeAnswers)
  \/ Execute("w1", TicketIds, DbUp)
  \/ Respond("w1")

NextRun ==
  \/ \E m \in GraphMsgs : StartGraph("w1", "t1", m, MaxRunCalls, DbUp)
  \/ RunStage

SpecRun == Init /\ [][NextRun]_vars /\ WF_vars(RunStage)

\* Tickets created by both processors, with every priority the oracle can give.
NextTeams ==
  \/ \E t \in Threads, m \in GraphMsgs : StartTC("w1", "tc", t, m, <<>>, MaxTeamCalls)
  \/ TCGate("w1", DbUp)
  \/ TCOracle("w1", CreateActions, TicketIds, DbUp)
  \/ \E t \in Threads, m \in GraphMsgs : StartGraph("w1", t, m, MaxTeamCalls, DbUp)
  \/ Classify("w1", ClassifyAnswers)
  \/ Extract("w1", FewExtractAnswers)
  \/ Decide("w1")
  \/ Analyze("w1", AnalyzeAnswers)
  \/ Execute("w1", TicketIds, DbUp)
  \/ Respond("w1")

SpecTeams == Init /\ [][NextTeams]_vars


\* merge_passenger_info on every triple of operands.
MergeOperands ==
  {{}} \cup
  { {PassengerInfo(n, e, p, f, b)} :
      n \in {None, "Ann"}, e \in {None, "ann@x"}, p \in {None, "", "555"},
      f \in {None, "AA1"}, b \in {None, "R1"} }

InitMerge ==
  /\ tickets = {}
  /\ clock = 0
  /\ conversation_store = [t \in Threads |-> <<>>]
  /\ checkpoint = [t \in Threads |-> BlankState]
  /\ call = [w \in Workers |-> IdleCall]
  /\ ncalls = 0
  /\ appended = [t \in Threads |-> <<>>]
  /\ ready = [t \in Threads |-> NoneReady]
  /\ mg \in { [pc |-> "args", a |-> a, b |-> b, c |-> c] :
               a \in MergeOperands, b \in MergeOperands, c \in MergeOperands }

Merge ==
  /\ mg.pc = "args"
  /\ mg' = [pc |-> "done", a |-> mg.a, b |-> mg.b, c |-> mg.c,
            ab |-> merge_passenger_info(mg.a, mg.b),
            ab_b |-> merge_passenger_info(merge_passenger_info(mg.a, mg.b), mg.b),
            ab_c |-> merge_passenger_info(merge_passenger_info(mg.a, mg.b), mg.c),
            a_bc |-> merge_passenger_info(mg.a, merge_passenger_info(mg.b, mg.c)),
            ea |-> merge_passenger_info({AllNullInfo}, mg.a),
            ae |-> merge_passenger_info(mg.a, {AllNullInfo})]
  /\ UNCHANGED <<tickets, clock, conversation_store, checkpoint, call, ncalls, appended,
                 ready>>

SpecMerge == InitMerge /\ [][Merge]_vars


\* -------------------------------------------------------------- properties
Status(c) == c.result.status

NoStoreCall(c) == c.nOracle = 0 /\ c.nCreate = 0 /\ c.nUpdate = 0

\* C1: whatever calls of either processor and whatever clears have run, in whatever
\* interleaving, the ticket store holds at most one ticket per thread_id.
OneTicketPerThread ==
  \A r1 \in tickets, r2 \in tickets : r1.thread_id = r2.thread_id => r1 = r2

\* A create with a fresh ticket id was rejected because the conversation already
\* has a ticket.
SecondCreateRejected ==
  \E w \in Workers :
    /\ call[w].create_outcome = "thread_id_taken"
    /\ call[w].new_id \notin {r.ticket_id : r \in tickets}
    /\ TicketsOf(tickets, call[w].thread_id) # {}

\* Two calls on one conversation that ran while each other ran, both found no
\* ticket at their lookup and both called create_ticket.
ConcurrentCreates ==
  /\ call["w1"].thread_id = call["w2"].thread_id
  /\ "w2" \in call["w1"].overlapped /\ "w1" \in call["w2"].overlapped
  /\ \A w \in Workers :
       call[w].pc = "done" /\ call[w].nCreate = 1 /\ call[w].existing = {}

FailedStatus(c) == IF c.kind = "graph" THEN "creation_failed" ELSE "error"

CreateSurfaced(c) ==
  IF c.db_ok = {TRUE}
  THEN Status(c) = "ticket_created" /\ c.result.ticket_id = c.new_id
  ELSE Status(c) = FailedStatus(c) /\ c.result.ticket_id = None

CreatedCalls == {w \in Workers : Status(call[w]) = "ticket_created"}

\* C2 as stated: of two concurrent calls on one conversation that both saw no ticket
\* and both reach the create step, exactly one returns 'ticket_created' with a
\* ticket id, the other returns 'creation_failed' (graph) or 'error' (TrustCall)
\* with no ticket id, and exactly one ticket of the conversation exists afterwards.
ExactlyOneConcurrentCreateSucceeds ==
  ConcurrentCreates =>
    /\ Cardinality(CreatedCalls) = 1
    /\ \A w \in Workers : CreateSurfaced(call[w])
    /\ Cardinality(TicketsOf(tickets, call["w1"].thread_id)) = 1

\* A run of the intake state machine on a conversation without a ticket, whose
\* message was classified as a complaint and whose extraction returned a name, a
\* contact, a complaint text and is_complete = true.
CompleteComplaint(c) ==
  /\ c.kind = "graph"
  /\ c.stored = {}
  /\ c.st.is_complaint = {TRUE}
  /\ c.extracted.made
  /\ Truthy(c.extracted.passenger_info.name)
  /\ Truthy(c.extracted.passenger_info.email) \/ Truthy(c.extracted.passenger_info.phone)
  /\ Truthy(c.extracted.complaint_description)
  /\ c.extracted.is_complete

\* C3 as stated: such a run calls createTicket exactly once and updateTicket never
\* and returns 'ticket_created' with the generated ticket id, which is in the
\* response text.
CompleteComplaintCreatesTicket ==
  LET c == call["w1"] IN
  (CompleteComplaint(c) /\ c.pc \in {"done", "raised"}) =>
    /\ c.nCreate = 1 /\ c.nUpdate = 0
    /\ Status(c) = "ticket_created"
    /\ c.result.ticket_id = c.new_id
    /\ c.new_id \in Range(c.result.response)

\* C3, amended: such a run, if Analyze does not fail, calls createTicket exactly once
\* and updateTicket never; if createTicket succeeds it returns 'ticket_created' with
\* the generated ticket id, which is in the response text; if createTicket fails it
\* returns 'creation_failed' with no ticket id and the id is not in the response;
\* if Analyze fails the run raises and calls neither.
CompleteComplaintCreatesOnce ==
  LET c == call["w1"] IN
  CompleteComplaint(c) =>
    /\ c.pc = "raised" => c.nCreate = 0 /\ c.nUpdate = 0 /\ c.nOracle = 3
    /\ c.pc = "done" =>
         /\ c.nCreate = 1 /\ c.nUpdate = 0
         /\ IF c.db_ok = {TRUE}
            THEN /\ Status(c) = "ticket_created"
                 /\ c.result.ticket_id = c.new_id
                 /\ c.new_id \in Range(c.result.response)
            ELSE /\ Status(c) = "creation_failed"
                 /\ c.result.ticket_id = None
                 /\ c.new_id \notin Range(c.result.response)

CompleteComplaintCreated ==
  LET c == call["w1"] IN
  /\ CompleteComplaint(c) /\ c.pc = "done"
  /\ Status(c) = "ticket_created" /\ c.new_id \in Range(c.result.response)

\* This run went through Decide.
Decided(c) == \E i \in 1..Len(c.stages) : c.stages[i] = "decide_action"

MissingAtDecide(c) == Only(c.st.missing_fields)

\* The part of C4 about messages with missing fields: on a conversation without a
\* ticket, a message for which missingFields is non-empty at Decide creates no
\* ticket and returns these missingFields and no ticket id.
NoCreateWhileMissing(c) ==
  (c.kind = "graph" /\ c.stored = {} /\ Decided(c) /\ MissingAtDecide(c) # <<>>) =>
    /\ c.pc # "raised"
    /\ c.nCreate = 0 /\ c.nUpdate = 0
    /\ c.pc = "done" =>
         /\ c.result.missing_fields = {MissingAtDecide(c)}
         /\ c.result.ticket_id = None

CreatedWhenReady(c) ==
  (c.kind = "graph" /\ c.stored = {} /\ c.create_outcome = "created") =>
    /\ Decided(c) /\ MissingAtDecide(c) = <<>>
    /\ c.extracted.made /\ c.extracted.is_complete

\* C4 as stated: over the messages of one conversation that has no ticket, a
\* message with non-empty missingFields at Decide creates no ticket and returns the
\* missingFields and no ticket id, and the ticket is created only by the first
\* message at which missingFields is empty and extraction reports is_complete.
ProgressiveBuilding ==
  LET c == call["w1"] IN
  /\ NoCreateWhileMissing(c)
  /\ CreatedWhenReady(c)
  /\ (c.kind = "graph" /\ c.stored = {} /\ c.create_outcome = "created")
       => c.ready_seen = 0

\* C4, amended: the same, except that the ticket is created by the first message at
\* which missingFields is empty and is_complete is true only if that message's run
\* does not fail: the message that creates the ticket is one at which missingFields
\* is empty and is_complete is true, and every earlier such message of the
\* conversation failed in Analyze or in createTicket.
ProgressiveBuildingUntilSuccess ==
  LET c == call["w1"] IN
  /\ NoCreateWhileMissing(c)
  /\ CreatedWhenReady(c)
  /\ (c.kind = "graph" /\ c.stored = {} /\ c.create_outcome = "created")
       => c.ready_seen = c.ready_failed

\* A message asked for missing fields, and a later one of the same conversation
\* created the ticket.
BuiltProgressively ==
  LET c == call["w1"] IN
  /\ c.kind = "graph" /\ c.stored = {} /\ c.create_outcome = "created"
  /\ c.pc = "done"
  /\ ready["t1"].asked

\* C5: through process_complaint, on a conversation with an OPEN ticket and 11 user
\* messages already processed, the 12th message, neither trivial nor a duplicate of
\* the previous user message, is answered 'ticket_exists' with the ticket id, with
\* no oracle call and no ticket create or update.
ThresholdGateEndToEnd ==
  LET c == call["w1"]
      a == appended["t1"] IN
  (/\ c.kind = "api" /\ c.pc = "done"
   /\ Len(a) = 2 * (ThresholdTurns + 2)
   /\ \E r \in tickets : r.thread_id = "t1" /\ r.status = "OPEN"
   /\ ~is_trivial(c.message)
   /\ normalize(a[Len(a) - 3].content) # normalize(c.message))
  => /\ Status(c) = "ticket_exists"
     /\ c.result.ticket_id \in {r.ticket_id : r \in TicketsOf(tickets, "t1")}
     /\ NoStoreCall(c)

\* C6: the stored history of every conversation has at most 20 entries, and once
\* more than 20 turns have been appended it is exactly the 20 most recently
\* appended turns, in the order they were appended.
BoundedHistory ==
  \A t \in Threads :
    LET s == conversation_store[t]
        a == appended[t] IN
    /\ Len(s) <= HistoryCap
    /\ Len(a) > HistoryCap =>
         /\ Len(s) = HistoryCap
         /\ \A i \in 1..HistoryCap : s[i] = a[Len(a) - HistoryCap + i]

\* A call completed after more than 20 turns had been appended, and the oldest
\* turns are gone from the stored history.
HistoryTruncated ==
  /\ call["w1"].pc = "done"
  /\ Len(appended["t1"]) = HistoryCap + 4
  /\ conversation_store["t1"][1] # appended["t1"][1]

\* C7: process_message on a message whose trimmed, lower-cased text is a trivial
\* token makes no oracle call and no ticket create or update, and answers
\* 'acknowledged' with the ticket id when the conversation has a ticket and
\* 'awaiting_complaint' with no ticket id otherwise.
TrivialFastPath ==
  LET c == call["w1"] IN
  (c.kind = "tc" /\ c.pc = "done" /\ normalize(c.message) \in trivial_messages) =>
    /\ NoStoreCall(c)
    /\ IF c.stored # {}
       THEN Status(c) = "acknowledged" /\ c.result.ticket_id = Only(c.stored).ticket_id
       ELSE Status(c) = "awaiting_complaint" /\ c.result.ticket_id = None

\* C8: process_message on a non-trivial message whose trimmed, lower-cased text
\* equals that of the last user turn of the history answers 'duplicate_message'
\* with no oracle call, no ticket lookup and no ticket create or update.
DuplicateDetection ==
  LET c == call["w1"] IN
  (/\ c.kind = "tc" /\ c.pc \in {"oracle", "done"}
   /\ normalize(c.message) \notin trivial_messages
   /\ UserTurns(c.history) # {}
   /\ normalize(c.history[LastUserIndex(c.history)].content) = normalize(c.message))
  => /\ c.pc = "done"
     /\ Status(c) = "duplicate_message"
     /\ NoStoreCall(c) /\ c.nLookup = 0

\* C9: merge_passenger_info is idempotent and associative on all operands, absent
\* ones included: merge(merge(A,B),B) = merge(A,B) and
\* merge(merge(A,B),C) = merge(A,merge(B,C)).
MergeIdempotentAssociative ==
  mg.pc = "done" => mg.ab_b = mg.ab /\ mg.ab_c = mg.a_bc

\* A merge over an absent middle operand whose result is neither outer operand.
MergedAcrossAbsent ==
  /\ mg.pc = "done"
  /\ mg.a # {} /\ mg.b = {} /\ mg.c # {}
  /\ mg.ab_c \notin {mg.a, mg.c}

\* C10: merge_passenger_info(existing, new) has, in each of the five fields, the
\* new value if that is non-null and the existing value otherwise; it is new as it
\* is when existing is absent and existing unchanged when new is absent; and the
\* all-null PassengerInfo is an identity on both sides for every present value.
MergeFieldwise ==
  mg.pc = "done" =>
    /\ (mg.a # {} /\ mg.b # {}) =>
         /\ Cardinality(mg.ab) = 1
         /\ \A k \in InfoFields :
              Only(mg.ab)[k] = IF Only(mg.b)[k] # None THEN Only(mg.b)[k]
                               ELSE Only(mg.a)[k]
    /\ mg.a = {} => mg.ab = mg.b
    /\ mg.b = {} => mg.ab = mg.a
    /\ mg.a # {} => mg.ea = mg.a /\ mg.ae = mg.a

\* Both operands present, an empty string among the new values, and a result that
\* is neither operand.
MergedFieldwise ==
  /\ mg.pc = "done"
  /\ mg.a # {} /\ mg.b # {}
  /\ Only(mg.a).phone = "555" /\ Only(mg.b).phone = ""
  /\ Only(mg.a).name = "Ann" /\ Only(mg.b).name = None
  /\ mg.ab \notin {mg.a, mg.b}


\* C11: when the oracle call of TrustCallProcessor.process_message fails, the call
\* does not raise: it returns the apology with status 'error' and no ticket id, the
\* oracle has been called once only, and the call created and updated no ticket.
OracleFailureIsCaught ==
  \A w \in Workers :
    LET c == call[w] IN
    (c.kind \in {"tc", "api"} /\ c.oracle_failed) =>
      /\ c.pc = "done"
      /\ c.result = Apology
      /\ Status(c) = "error" /\ c.result.ticket_id = None
      /\ c.nOracle = 1
      /\ c.nCreate = 0 /\ c.nUpdate = 0 /\ ~c.committed

\* The oracle failed in a call on a conversation that has a ticket.
OracleFailedOnTicket ==
  LET c == call["w1"] IN
  /\ c.kind = "tc" /\ c.oracle_failed /\ c.pc = "done"
  /\ c.existing # {}


\* C12: after a process_complaint call that ended with status 'error' because the
\* oracle failed, the stored history of the conversation is what it was before the
\* call, and the same message submitted again is not answered 'duplicate_message'.
ErrorLeavesConversationUnmodified ==
  LET c == call["w1"] IN
  /\ (c.kind = "api" /\ c.pc = "done" /\ c.oracle_failed /\ ~c.cleared)
       => conversation_store[c.thread_id] = c.history
  /\ (/\ c.kind = "api" /\ c.pc = "done"
      /\ Len(c.history) >= 2
      /\ c.history[Len(c.history)] = Turn("assistant", Apology.response)
      /\ c.history[Len(c.history) - 1] = Turn("user", c.message))
       => Status(c) # "duplicate_message"


\* C13: a processMessage call that ends with status 'error' or with an exception
\* has committed no create and no update: the ticket store is as it was before.
AtomicFailure ==
  \A w \in Workers :
    LET c == call[w] IN
    (c.pc = "raised" \/ (c.pc = "done" /\ Status(c) = "error")) => ~c.committed

\* C14: the Execute stage never raises on a store failure and reports the outcome
\* as the action-result tag: on the create path 'ticket_created' with the new
\* ticket id iff create_ticket returned success and 'creation_failed' with no
\* ticket id otherwise; on the update path 'ticket_updated' iff update_ticket
\* returned success and 'update_failed' otherwise; the tag is the status that
\* process_message returns.
Executed(c) == \E i \in 1..Len(c.stages) : c.stages[i] = "execute_action"

ExecuteReportsOutcome ==
  \A w \in Workers :
    LET c == call[w] IN
    (c.kind = "graph" /\ Executed(c)) =>
      /\ c.pc # "raised"
      /\ c.nCreate + c.nUpdate = 1
      /\ c.nCreate = 1 =>
            /\ c.st.action_result = "ticket_created" <=> Only(c.db_ok)
            /\ c.st.action_result = "creation_failed" <=> ~Only(c.db_ok)
            /\ c.st.ticket_id = (IF Only(c.db_ok) THEN c.new_id ELSE None)
            /\ c.new_id # None
      /\ c.nUpdate = 1 =>
            /\ c.st.action_result = "ticket_updated" <=> Only(c.db_ok)
            /\ c.st.action_result = "update_failed" <=> ~Only(c.db_ok)
      /\ c.pc = "done" => Status(c) = c.st.action_result

UpdateFailureReported ==
  \E w \in Workers :
    LET c == call[w] IN
    /\ c.kind = "graph" /\ c.pc = "done" /\ Executed(c)
    /\ c.nUpdate = 1 /\ c.db_ok = {FALSE}
    /\ Status(c) = "update_failed"

\* C15: a storage failure is surfaced: whenever create_ticket or update_ticket
\* returned failure during a process_message call, the status returned to the
\* caller is a failure status (never 'ticket_created' or 'ticket_updated') and
\* the response tells the user to retry.
TellsRetry(response) ==
  \E i \in 1..Len(response) :
    response[i] \in {"We encountered an error creating your ticket. Please try again.",
                     "Please try again or contact support directly."}

StorageFailureSurfaced ==
  \A w \in Workers :
    LET c == call[w] IN
    (c.pc = "done" /\ c.db_ok = {FALSE}) =>
      /\ Status(c) \notin {"ticket_created", "ticket_updated"}
      /\ TellsRetry(c.result.response)

\* C16: Decide gives an existing ticket precedence: in a run on a conversation
\* that has a ticket, Decide sets next_action = 'execute' whatever missing_fields
\* and info_complete are, and the run goes to the update path of Execute without
\* Analyze and without a create.
ExistingTicketPrecedence ==
  \A w \in Workers :
    LET c == call[w] IN
    (c.kind = "graph" /\ Decided(c) /\ c.stored # {}) =>
      /\ c.st.next_action = "execute"
      /\ c.st.action_type = "execute"
      /\ c.nCreate = 0
      /\ \A i \in 1..Len(c.stages) : c.stages[i] # "analyze"
      /\ c.pc \in {"execute", "respond", "done"}
      /\ c.pc \in {"respond", "done"} => c.nUpdate = 1 /\ Executed(c)

\* C17: identity fields are immutable: as long as a ticket is in the store, no
\* step changes its ticket_id, thread_id or created_at, whatever field names the
\* update carries (the oracle's corrections included).
IdentityFieldsImmutable ==
  [][\A r \in tickets :
       \A r2 \in tickets' :
         r2.ticket_id = r.ticket_id =>
           r2.thread_id = r.thread_id /\ r2.created_at = r.created_at]_vars

\* C18: an update of an existing ticket applies only non-empty values: no step
\* overwrites a stored ticket field with an empty string or None, in
\* _execute_action and in TrustCallProcessor._update_ticket alike.
OnlyNonEmptyValuesWritten ==
  [][\A r \in tickets :
       \A r2 \in tickets' :
         r2.ticket_id = r.ticket_id =>
           \A col \in Columns \ {"created_at", "updated_at"} :
             r2[col] # r[col] => Truthy(r2[col])]_vars

\* C19: the fast-path gate decides with no oracle call and at most one ticket
\* lookup: a call of TrustCallProcessor.process_message that ends on the trivial
\* path ('acknowledged' / 'awaiting_complaint'), in 'duplicate_message' or in
\* 'ticket_exists' has called get_ticket_by_thread at most once and the oracle
\* not at all; a call that leaves the gate for the oracle has looked up once.
FastPathGateCost ==
  \A w \in Workers :
    LET c == call[w] IN
    c.kind \in {"tc", "api"} =>
      /\ (c.pc = "done" /\ (\/ normalize(c.message) \in trivial_messages
                             \/ Status(c) \in {"awaiting_complaint", "duplicate_message",
                                                "ticket_exists"})) =>
            /\ c.nLookup <= 1
            /\ c.nOracle = 0
            /\ c.nCreate = 0 /\ c.nUpdate = 0
      /\ c.pc = "oracle" => c.nLookup = 1 /\ c.nOracle = 0

ThresholdAfterOneLookup ==
  \E w \in Workers :
    LET c == call[w] IN
    /\ c.kind = "tc" /\ c.pc = "done"
    /\ Status(c) = "ticket_exists"
    /\ c.nLookup = 1 /\ c.nOracle = 0

\* C20: no workflow state carries over between invocations: a call of
\* ComplaintGraphProcessor.process_message that is given the same message, the
\* same ticket store content and lookup result, the same oracle answers and the
\* same store outcomes as the first call of the conversation returns the same
\* status, ticket_id and missing_fields, whatever the calls in between did.
NoStateCarriedOver ==
  \A w \in Workers :
    LET c == call[w] IN
    (/\ c.kind = "graph" /\ c.pc = "done"
     /\ ready[c.thread_id].first # {}
     /\ Given(c) = Only(ready[c.thread_id].first).given) =>
      Returned(c.result) = Only(ready[c.thread_id].first).result

\* C21: the threshold rule of the gate, per call: for a message that is neither
\* trivial nor a duplicate, on a conversation whose ticket has status OPEN,
\* process_message answers 'ticket_exists' with the ticket id, without the oracle,
\* if and only if the history has more than 10 user turns; with 10 or fewer, or
\* with no OPEN ticket, the call goes on to the oracle.
PastGate(c) == c.kind = "tc" /\ c.pc \in {"oracle", "done"}

GateFallsThrough(c) == c.pc = "oracle" \/ c.nOracle = 1

ThresholdRule ==
  \A w \in Workers :
    LET c == call[w]
        open == c.stored # {} /\ Only(c.stored).status = "OPEN"
        over == open /\ message_count(c.history) > ThresholdTurns
    IN
    (PastGate(c) /\ ~is_trivial(c.message) /\ ~is_duplicate(c.message, c.history)) =>
      IF over
      THEN /\ c.pc = "done" /\ Status(c) = "ticket_exists"
           /\ c.result.ticket_id = Only(c.stored).ticket_id
           /\ c.nOracle = 0
      ELSE GateFallsThrough(c) /\ (c.pc = "done" => Status(c) # "ticket_exists")

\* C22: the gate's rules are evaluated in the order trivial, duplicate, threshold,
\* and the first that matches ends the call: a trivial token is answered by the
\* trivial rule ('acknowledged' / 'awaiting_complaint') even when it repeats the
\* previous user turn, and a message that repeats the previous user turn is
\* never answered 'ticket_exists', even on a conversation over the threshold: when
\* the gate ends its call, it does so with 'duplicate_message'.
Repeats(message, h) ==
  /\ UserTurns(h) # {}
  /\ normalize(h[LastUserIndex(h)].content) = normalize(message)

GateRuleOrder ==
  \A w \in Workers :
    LET c == call[w] IN
    PastGate(c) =>
      /\ normalize(c.message) \in trivial_messages =>
            c.pc = "done" /\ Status(c) \in {"acknowledged", "awaiting_complaint"}
      /\ (/\ normalize(c.message) \notin trivial_messages
          /\ Repeats(c.message, c.history)
          /\ c.pc = "done" /\ c.nOracle = 0) =>
            Status(c) = "duplicate_message"

\* C23: Decide, when no ticket exists for the conversation, is a function of the
\* workflow state alone: next_action is 'respond' if missing_fields is non-empty,
\* otherwise 'analyze' if extraction marked the information complete, otherwise
\* 'respond', never 'execute' or 'end'; the step makes no oracle call and no
\* store access.
DecideStep(w) == call'[w].stages = Append(call[w].stages, "decide_action")

DecideWithoutTicket ==
  [][\A w \in Workers :
       (DecideStep(w) /\ ~call[w].st.ticket_exists) =>
         LET st == call[w].st
             c2 == call'[w] IN
         /\ c2.st.next_action =
              (IF Only(c2.st.missing_fields) # <<>> THEN "respond"
               ELSE IF st.info_complete THEN "analyze" ELSE "respond")
         /\ c2.st.next_action \notin {"execute", "end"}
         /\ c2.pc = c2.st.next_action
         /\ tickets' = tickets /\ clock' = clock
         /\ c2.nOracle = call[w].nOracle /\ c2.nLookup = call[w].nLookup
         /\ c2.nCreate = call[w].nCreate /\ c2.nUpdate = call[w].nUpdate]_vars

DecidedToAnalyze ==
  \E w \in Workers :
    LET c == call[w] IN
    /\ c.kind = "graph" /\ Decided(c) /\ ~c.st.ticket_exists
    /\ MissingAtDecide(c) = <<>> /\ c.st.info_complete
    /\ c.st.next_action = "analyze"

\* C24: Decide computes missing_fields as exactly the subsequence of [name,
\* contact information, complaint details] whose check fails: name is listed iff
\* no name is present, contact iff neither email nor phone is present, complaint
\* iff original_complaint is empty or absent; the items appear in that order and
\* none is listed twice.
MissingLabels == <<"name", "contact information (email or phone)", "complaint details">>

LabelIndex(label) == CHOOSE k \in 1..Len(MissingLabels) : MissingLabels[k] = label

MissingFieldsExact ==
  \A w \in Workers :
    LET c == call[w] IN
    (c.kind = "graph" /\ Decided(c)) =>
      /\ c.st.passenger_info # {}
      /\ LET m == MissingAtDecide(c)
             info == Only(c.st.passenger_info) IN
         /\ Range(m) \subseteq Range(MissingLabels)
         /\ MissingLabels[1] \in Range(m) <=> ~Truthy(info.name)
         /\ MissingLabels[2] \in Range(m) <=> (~Truthy(info.email) /\ ~Truthy(info.phone))
         /\ MissingLabels[3] \in Range(m) <=> ~Truthy(c.st.original_complaint)
         /\ \A i, j \in 1..Len(m) : i < j => LabelIndex(m[i]) < LabelIndex(m[j])

NameAndComplaintMissing ==
  \E w \in Workers :
    LET c == call[w] IN
    /\ c.kind = "graph" /\ Decided(c)
    /\ Truthy(Only(c.st.passenger_info).phone)
    /\ MissingAtDecide(c) = <<"name", "complaint details">>

\* C25: every run of the intake state machine in which no stage fails terminates:
\* it follows only the listed transitions, runs each of the six stages at most
\* once, and ends with Respond, run exactly once as the last stage before END (no
\* run reaches END from Decide without Respond).
ListedTransitions ==
  { <<"start", "classify">>, <<"classify", "extract">>, <<"classify", "respond">>,
    <<"extract", "decide_action">>, <<"decide_action", "analyze">>,
    <<"decide_action", "execute_action">>, <<"decide_action", "respond">>,
    <<"analyze", "execute_action">>, <<"execute_action", "respond">> }

ListedPath(c) ==
  LET s == c.stages IN
  /\ \A i \in 1..(Len(s) - 1) : <<s[i], s[i + 1]>> \in ListedTransitions
  /\ \A i, j \in 1..Len(s) : i # j => s[i] # s[j]
  /\ c.pc = "done" <=> (s # <<>> /\ s[Len(s)] = "respond")
  /\ c.pc = "raised" => c.oracle_failed

EveryRunTerminates ==
  /\ [](\A w \in Workers : call[w].kind = "graph" => ListedPath(call[w]))
  /\ \A w \in Workers :
       (call[w].kind = "graph" /\ ~Ended(call[w]))
         ~> (call[w].pc = "done" \/ call[w].oracle_failed)

RanAllStages ==
  \E w \in Workers :
    /\ call[w].pc = "done"
    /\ call[w].stages = <<"start", "classify", "extract", "decide_action", "analyze",
                           "execute_action", "respond">>

\* C26: a message that Classify judges not to be a complaint goes directly to
\* Respond: Extract, Decide, Analyze and Execute do not run and the call leaves
\* the ticket store unchanged, whether or not the conversation has a ticket.
JudgedNoComplaint(c) ==
  /\ c.kind = "graph"
  /\ "classify" \in Range(c.stages)
  /\ c.st.is_complaint = {FALSE}

NonComplaintGoesToRespond ==
  \A w \in Workers :
    LET c == call[w] IN
    JudgedNoComplaint(c) =>
      /\ c.pc \in {"respond", "done"}
      /\ Range(c.stages) \subseteq {"start", "classify", "respond"}
      /\ c.nOracle = 1 /\ c.nCreate = 0 /\ c.nUpdate = 0
      /\ ~c.committed

NonComplaintOnTicket ==
  \E w \in Workers :
    LET c == call[w] IN
    /\ JudgedNoComplaint(c) /\ c.pc = "done"
    /\ c.existing # {}
    /\ c.stages = <<"start", "classify", "respond">>

\* C27: in the intake state machine the create path of Execute is reached only
\* through Analyze in the same run, Decide goes directly to Execute only in a run
\* on a conversation that has a ticket, Analyze never runs in such a run, and no
\* step changes the category, priority or assigned team of a stored ticket.
Analyzed(c) == "analyze" \in Range(c.stages)

CreateOnlyThroughAnalyze ==
  /\ [](\A w \in Workers :
          LET c == call[w] IN
          c.kind = "graph" =>
            /\ c.nCreate = 1 => (Analyzed(c) /\ c.nUpdate = 0)
            /\ (Executed(c) /\ ~Analyzed(c)) => (c.stored # {} /\ c.nUpdate = 1)
            /\ c.stored # {} => (~Analyzed(c) /\ c.pc # "analyze"))
  /\ [][\A r \in tickets :
          \A r2 \in tickets' :
            r2.ticket_id = r.ticket_id =>
              /\ r2.category = r.category
              /\ r2.priority = r.priority
              /\ r2.assigned_team = r.assigned_team]_vars

\* C28: Respond selects its template by strict priority from the final workflow
\* state: with missing_fields non-empty it asks for exactly those fields, even
\* when a ticket id is present; else with a ticket id it gives the confirmation;
\* else for a message that is not a complaint the generic greeting; otherwise the
\* generic acknowledgment.  The step makes no oracle call and no store access.
RespondStep(w) == call'[w].stages = Append(call[w].stages, "respond")

RespondByPriority ==
  /\ [](\A w \in Workers :
          LET c == call[w]
              st == c.st
              r == c.result.response
              m == ListOf(st.missing_fields) IN
          (c.kind = "graph" /\ c.pc = "done") =>
            /\ st.response = {r}
            /\ IF m # <<>>
               THEN r = <<"To process your complaint, I'll need">> \o m
                          \o <<"Could you please provide these details?">>
               ELSE IF Truthy(st.ticket_id)
               THEN /\ r[1] = "Dear" /\ r[3] = "Your complaint has been registered."
                    /\ r[4] = st.ticket_id
               ELSE IF st.is_complaint # {TRUE}
               THEN r = <<"Thank you for contacting us. How may I assist you today?">>
               ELSE r = <<"Thank you for your message. Please provide more details about your concern.">>)
  /\ [][\A w \in Workers :
          RespondStep(w) =>
            /\ tickets' = tickets /\ clock' = clock
            /\ call'[w].nOracle = call[w].nOracle /\ call'[w].nLookup = call[w].nLookup
            /\ call'[w].nCreate = call[w].nCreate /\ call'[w].nUpdate = call[w].nUpdate]_vars

AskedDespiteTicket ==
  \E w \in Workers :
    LET c == call[w] IN
    /\ c.kind = "graph" /\ c.pc = "done"
    /\ ListOf(c.st.missing_fields) # <<>>
    /\ Truthy(c.st.ticket_id)
    /\ c.result.response[1] = "To process your complaint, I'll need"

\* C29: the assigned team is a total function of priority given by the table
\* CRITICAL -> 'Emergency Response', HIGH -> 'Priority Support', MEDIUM ->
\* 'Customer Service', LOW -> 'General Support': every ticket that either
\* processor creates stores one of the four priorities and the team the table
\* gives for it.
TeamTable ==
  { <<"CRITICAL", "Emergency Response">>, <<"HIGH", "Priority Support">>,
    <<"MEDIUM", "Customer Service">>, <<"LOW", "General Support">> }

TeamFollowsPriority ==
  [][\A r \in tickets' :
       (\A old \in tickets : old.ticket_id # r.ticket_id) =>
         <<r.priority, r.assigned_team>> \in TeamTable]_vars

TeamsOfBothProcessors ==
  /\ call["w1"].kind = "graph" /\ call["w1"].pc = "done"
  /\ call["w1"].nCreate = 1 /\ call["w1"].committed
  /\ Cardinality(tickets) = 2
  /\ Cardinality({r.priority : r \in tickets}) = 2

\* C30: when the oracle fails during Classify, Extract or Analyze in a run of
\* ComplaintGraphProcessor.process_message, the call does not raise: it returns
\* the generic apology with status 'error', and no ticket is created or updated.
GraphOracleFailureIsCaught ==
  \A w \in Workers :
    LET c == call[w] IN
    (c.kind = "graph" /\ c.oracle_failed) =>
      /\ c.pc = "done"
      /\ c.result = Apology
      /\ c.nCreate = 0 /\ c.nUpdate = 0 /\ ~c.committed

\* C31: conversation memory is scoped per conversation identifier: a request on
\* an identifier on which no message was processed is given the empty history,
\* and a step changes the stored history of a conversation only if it is the
\* return of a request on that very conversation (or the clear).
ClearStep ==
  /\ ncalls' = ncalls + 1
  /\ \A w \in Workers : call'[w].pc = call[w].pc

ApiStarts(w) ==
  /\ Ended(call[w])
  /\ call'[w].kind = "api" /\ call'[w].pc = "gate"

ApiReturns(w) ==
  /\ call[w].kind = "api" /\ ~Ended(call[w])
  /\ call'[w].pc = "done"

MemoryScopedPerConversation ==
  [][/\ \A w \in Workers :
          (ApiStarts(w) /\ appended[call'[w].thread_id] = <<>>) =>
            call'[w].history = <<>>
     /\ ~ClearStep =>
          \A b \in Threads :
            conversation_store'[b] # conversation_store[b] =>
              \E w \in Workers : ApiReturns(w) /\ call[w].thread_id = b]_vars

\* A request on t1 began with the empty history while t2 had a stored history,
\* and t2's history is, after the request, all that was appended to it.
FreshBesideStored ==
  LET c == call["w1"] IN
  /\ c.kind = "api" /\ c.pc = "done" /\ c.thread_id = "t1"
  /\ c.history = <<>> /\ ~c.cleared
  /\ Len(conversation_store["t1"]) = 2
  /\ Len(conversation_store["t2"]) = 2
  /\ conversation_store["t2"] = appended["t2"]

\* C32: the ticket store reports a backend failure distinctly from 'not found',
\* so the engine never treats a conversation whose lookup failed as one without a
\* ticket: a call that looked up a conversation that has a ticket in the store
\* does not go on with "no ticket" as the outcome of its lookup.
LookedUp(c) == c.kind \in {"tc", "api", "graph"} /\ c.nLookup >= 1

TreatedAsWithoutTicket(c) ==
  /\ c.existing = {}
  /\ c.kind = "graph" => ~c.st.ticket_exists

FailedLookupIsDistinct ==
  \A w \in Workers :
    LET c == call[w] IN
    (LookedUp(c) /\ c.stored # {}) => ~TreatedAsWithoutTicket(c)

\* C33: through completed process_complaint calls every stored history has even
\* length and alternates user turn, assistant turn; every response is recorded
\* with its message (the stored history of a completed request ends with the
\* request's message and the response returned for it); and the history handed
\* to the gate has between 0 and 10 user turns.
Alternates(h) ==
  /\ Len(h) % 2 = 0
  /\ \A i \in 1..Len(h) : h[i].role = (IF i % 2 = 1 THEN "user" ELSE "assistant")

HistoryAlternates ==
  /\ \A t \in Threads :
       /\ Alternates(conversation_store[t])
       /\ 2 * message_count(conversation_store[t]) = Len(conversation_store[t])
  /\ \A w \in Workers :
       LET c == call[w]
           s == conversation_store[c.thread_id] IN
       c.kind = "api" =>
         /\ Alternates(c.history)
         /\ message_count(c.history) \in 0..(HistoryCap \div 2)
         /\ (c.pc = "done" /\ ~c.cleared) =>
              /\ Len(s) >= 2
              /\ s[Len(s) - 1] = Turn("user", c.message)
              /\ s[Len(s)] = Turn("assistant", c.result.response)

\* The gate was handed a full history of 10 user turns, and the request's own
\* turns, recorded after a fast-path answer, pushed the two oldest out.
FullHistoryAtGate ==
  LET c == call["w1"] IN
  /\ c.kind = "api" /\ c.pc = "done"
  /\ message_count(c.history) = HistoryCap \div 2
  /\ Status(c) = "duplicate_message"
  /\ Len(conversation_store["t1"]) = HistoryCap
  /\ conversation_store["t1"][1] = c.history[3]

\* C34: every ticket the intake state machine creates has, at creation, a
\* non-empty passenger name, at least one of email and phone, a non-empty
\* original complaint, a category, a priority, the team of that priority and
\* status OPEN, and its thread_id is the conversation identifier of the message
\* that created it.
GraphCreates(w) ==
  /\ call[w].kind = "graph" /\ call[w].pc = "execute"
  /\ call'[w].nCreate = call[w].nCreate + 1

CreatedTicketComplete ==
  [][\A w \in Workers :
       GraphCreates(w) =>
         \A r \in tickets' :
           (\A old \in tickets : old.ticket_id # r.ticket_id) =>
             /\ Truthy(r.passenger_name)
             /\ Truthy(r.passenger_email) \/ Truthy(r.passenger_phone)
             /\ Truthy(r.original_complaint)
             /\ r.category \in Categories
             /\ r.priority \in Priorities
             /\ Truthy(r.assigned_team)
             /\ r.status = "OPEN"
             /\ r.thread_id = call[w].thread_id
             /\ r.ticket_id = call'[w].new_id]_vars

\* A run created the ticket of its conversation from what several messages gave:
\* the phone number of an earlier one, the name and the complaint of this one.
CreatedFromSeveralMessages ==
  \E w \in Workers :
    LET c == call[w] IN
    /\ c.kind = "graph" /\ c.pc = "done" /\ c.create_outcome = "created"
    /\ c.extracted.passenger_info.phone = None
    /\ \E r \in tickets :
         /\ r.ticket_id = c.new_id /\ r.thread_id = c.thread_id
         /\ r.passenger_phone = "555" /\ r.passenger_name = "Ann"
         /\ r.status = "OPEN"

\* C35: a ticket is modified only by messages of its own conversation: a step of
\* a process_message call on conversation A, whatever the oracle answered,
\* leaves every ticket whose thread_id is not A as it is.
OnlyOwnTicketModified ==
  [][\A w \in Workers :
       (~Ended(call[w]) /\ call'[w] # call[w] /\ ~ClearStep) =>
         \A r \in tickets :
           r.thread_id # call[w].thread_id => r \in tickets']_vars

\* C36: whenever Respond produces the ticket confirmation (ticket id present,
\* missing_fields empty), the ticket id, the priority and the assigned team shown
\* in the response are those of the conversation's ticket in the store, on the
\* create path and on the update path alike.
Confirmation(c) ==
  /\ c.kind = "graph" /\ c.pc = "done"
  /\ ListOf(c.st.missing_fields) = <<>>
  /\ Truthy(c.st.ticket_id)
  /\ ~c.cleared

ConfirmationShowsStoredTicket ==
  \A w \in Workers :
    LET c == call[w]
        r == c.result.response IN
    Confirmation(c) =>
      \E tk \in TicketsOf(tickets, c.thread_id) :
        /\ r[4] = tk.ticket_id
        /\ r[5] = tk.priority
        /\ r[6] = tk.assigned_team

\* C37: after a clear that answered 'success' the ticket store is empty, the
\* conversation store is empty for every conversation identifier, and the count
\* in the answer is the number of tickets that existed before the clear; the next
\* message on any conversation thus reads an empty history and finds no ticket.
ClearAnswers ==
  { ClearResponse(clear_all_tickets(tickets, up).count) :
      up \in {u \in DbUp : clear_all_tickets(tickets, u).tickets = tickets'} }

ClearEmptiesBothStores ==
  [][ClearStep =>
       \A answer \in ClearAnswers :
         answer.status = "success" =>
           /\ tickets' = {}
           /\ \A t \in Threads :
                /\ conversation_store'[t] = <<>>
                /\ get_ticket_by_thread(tickets', t, TRUE) = {}
           /\ answer.count = Cardinality(tickets)]_vars


====
